---- MODULE Spec2Model ----
(***************************************************************************)
(* Model of the multi-intent phone assistant:                              *)
(*   Backend/app/core/phone_system.py  (MultiIntentPhoneSystem)            *)
(*   Backend/app/core/safety_system.py (is_unsafe_query)                   *)
(*   Backend/app/api/routes.py         (/chat, /chat_stream)               *)
(*                                                                         *)
(* Python strings that are searched or lower-cased are sequences of        *)
(* characters; similarity scores are integers in hundredths (0.1 = 10);    *)
(* confidences are integers in tenths (0.7 = 7).  A dict entry is a tagged *)
(* value: absent key, JSON null, or a value.                               *)
(***************************************************************************)
EXTENDS Integers, Sequences, FiniteSets, TLC

VARIABLES
    products,    \* self.products, the active catalog
    sysState,    \* "unbuilt" | "ready" | "crashed": MultiIntentPhoneSystem(...)
    loadLog,     \* the sources load_products read, in order, with their outcome
    pc,          \* position of the request in flight
    endpoint,    \* "none" | "chat" | "chat_stream" | "direct"
    query,       \* req.query, a sequence of words and whitespace
    calls,       \* the external model calls made for the request, in order
    routeData,   \* intent_data of routes.py line 24
    intentData,  \* intent_data of process_query line 482
    handler,     \* the handlers process_query invoked, in order
    genCtx,      \* what the handler is about to send to the generator
    outcome,     \* "pending" | "http400" | "ok" | "raised"
    response,    \* the answer (process_query's return value / QueryResponse)
    chunks,      \* what /chat_stream has yielded
    fn           \* one call of a stateless method, with its arguments and result

vars == <<products, sysState, loadLog, pc, endpoint, query, calls, routeData,
          intentData, handler, genCtx, outcome, response, chunks, fn>>

-----------------------------------------------------------------------------
(* Bounds of the model *)

MaxCatalog == 2
MaxConstraints == 2
MaxTopK == 3
MaxTextLen == 4

-----------------------------------------------------------------------------
(* Python values *)

\* d.get(k) of a numeric entry: absent key and JSON null both give None
AbsentN == [st |-> "absent", v |-> 0]
NullN == [st |-> "null", v |-> 0]
Num(n) == [st |-> "val", v |-> n]
\* ... of a string entry (a sequence of characters)
AbsentS == [st |-> "absent", v |-> <<>>]
NullS == [st |-> "null", v |-> <<>>]
Str(s) == [st |-> "val", v |-> s]

\* bool(x) for a number or None
TruthyN(x) == x.st = "val" /\ x.v # 0
\* bool(x) for a string, a list or None
TruthyS(x) == x.st = "val" /\ x.v # <<>>

\* str.lower() on the characters of the model
LowerChar(c) ==
    CASE c = "A" -> "a" [] c = "B" -> "b" [] c = "X" -> "x" [] c = "Y" -> "y"
      [] OTHER -> c
Lower(s) == [i \in 1..Len(s) |-> LowerChar(s[i])]

\* Python's `s in t` for strings
IsSubstr(s, t) ==
    /\ Len(s) <= Len(t)
    /\ \E i \in 0..(Len(t) - Len(s)) : SubSeq(t, i + 1, i + Len(s)) = s

RECURSIVE Reverse(_)
Reverse(s) == IF s = <<>> THEN <<>> ELSE Append(Reverse(Tail(s)), Head(s))

SeqsUpTo(S, n) == UNION {[1..k -> S] : k \in 0..n}

-----------------------------------------------------------------------------
(* The catalog *)

Product(brand, name, price, camera, battery, charging, screen, os) ==
    [brand |-> brand, name |-> name, price |-> price, camera |-> camera,
     battery |-> battery, charging |-> charging, screen_size |-> screen,
     os |-> os]

PhoneA == Product(<<"A", "b">>, <<"a", "x">>, 1, 2, 1, 2, 2, <<"a">>)
PhoneB == Product(<<"b">>, <<"b", "y">>, 2, 1, 2, 1, 1, <<"A", "b">>)
PhoneC == Product(<<"a">>, <<"a", "x", "y">>, 2, 2, 2, 0, 2, <<"b">>)

ProductUniverse == {PhoneA, PhoneB, PhoneC}

Catalogs == SeqsUpTo(ProductUniverse, MaxCatalog)
NonEmptyCatalogs == Catalogs \ {<<>>}

-----------------------------------------------------------------------------
(* FilterSet and the Structured Filter Engine *)

NumKeys == {"max_price", "min_price", "min_camera", "min_battery",
            "min_charging", "max_screen_size"}
StrKeys == {"brand", "os"}
FilterKeys == NumKeys \cup StrKeys

NumValues == {NullN, Num(0), Num(1), Num(2)}
StrValues == {NullS, Str(<<>>), Str(<<"a">>), Str(<<"A", "b">>)}

NoFilters == [k \in FilterKeys |-> IF k \in NumKeys THEN AbsentN ELSE AbsentS]

PresentKeys(F) == {k \in FilterKeys : F[k].st # "absent"}

\* the FilterSets that constrain the keys KN (numeric) and KS (string)
FiltersOver(KN, KS) ==
    {[k \in FilterKeys |-> IF k \in KN THEN gn[k]
                           ELSE IF k \in KS THEN gs[k] ELSE NoFilters[k]] :
        gn \in [KN -> NumValues], gs \in [KS -> StrValues]}

FilterSets ==
    UNION {FiltersOver(K \cap NumKeys, K \cap StrKeys) :
             K \in {K \in SUBSET FilterKeys : Cardinality(K) <= MaxConstraints}}

\* structured_search: one list comprehension after another over a copy
structured_search(prods, F) ==
    LET r0 == prods
        r1 == IF TruthyN(F["max_price"])
              THEN SelectSeq(r0, LAMBDA p : p.price <= F["max_price"].v) ELSE r0
        r2 == IF TruthyN(F["min_price"])
              THEN SelectSeq(r1, LAMBDA p : p.price >= F["min_price"].v) ELSE r1
        r3 == IF TruthyS(F["brand"])
              THEN SelectSeq(r2, LAMBDA p : IsSubstr(Lower(F["brand"].v), Lower(p.brand)))
              ELSE r2
        r4 == IF TruthyN(F["min_camera"])
              THEN SelectSeq(r3, LAMBDA p : p.camera >= F["min_camera"].v) ELSE r3
        r5 == IF TruthyN(F["min_battery"])
              THEN SelectSeq(r4, LAMBDA p : p.battery >= F["min_battery"].v) ELSE r4
        r6 == IF TruthyN(F["min_charging"])
              THEN SelectSeq(r5, LAMBDA p : p.charging >= F["min_charging"].v) ELSE r5
        r7 == IF TruthyS(F["os"])
              THEN SelectSeq(r6, LAMBDA p : IsSubstr(Lower(F["os"].v), Lower(p.os)))
              ELSE r6
        r8 == IF TruthyN(F["max_screen_size"])
              THEN SelectSeq(r7, LAMBDA p : p.screen_size <= F["max_screen_size"].v)
              ELSE r7
    IN  r8

\* a per-item predicate whose price ceiling is exclusive
apply_filters_exclusive_ceiling(p, F) ==
    IF TruthyN(F["max_price"]) /\ p.price >= F["max_price"].v THEN FALSE
    ELSE IF TruthyN(F["min_price"]) /\ p.price < F["min_price"].v THEN FALSE
    ELSE IF TruthyS(F["brand"]) /\ ~IsSubstr(Lower(F["brand"].v), Lower(p.brand)) THEN FALSE
    ELSE IF TruthyN(F["min_camera"]) /\ p.camera < F["min_camera"].v THEN FALSE
    ELSE IF TruthyN(F["min_battery"]) /\ p.battery < F["min_battery"].v THEN FALSE
    ELSE IF TruthyN(F["min_charging"]) /\ p.charging < F["min_charging"].v THEN FALSE
    ELSE IF TruthyS(F["os"]) /\ ~IsSubstr(Lower(F["os"].v), Lower(p.os)) THEN FALSE
    ELSE IF TruthyN(F["max_screen_size"]) /\ p.screen_size > F["max_screen_size"].v THEN FALSE
    ELSE TRUE

\* apply_filters: the per-item predicate, one early return per constraint
apply_filters(p, F) ==
    IF TruthyN(F["max_price"]) /\ p.price > F["max_price"].v THEN FALSE
    ELSE IF TruthyN(F["min_price"]) /\ p.price < F["min_price"].v THEN FALSE
    ELSE IF TruthyS(F["brand"]) /\ ~IsSubstr(Lower(F["brand"].v), Lower(p.brand)) THEN FALSE
    ELSE IF TruthyN(F["min_camera"]) /\ p.camera < F["min_camera"].v THEN FALSE
    ELSE IF TruthyN(F["min_battery"]) /\ p.battery < F["min_battery"].v THEN FALSE
    ELSE IF TruthyN(F["min_charging"]) /\ p.charging < F["min_charging"].v THEN FALSE
    ELSE IF TruthyS(F["os"]) /\ ~IsSubstr(Lower(F["os"].v), Lower(p.os)) THEN FALSE
    ELSE IF TruthyN(F["max_screen_size"]) /\ p.screen_size > F["max_screen_size"].v THEN FALSE
    ELSE TRUE

-----------------------------------------------------------------------------
(* The Similarity Index *)

\* `similarities[idx] > 0.1`, in hundredths
Threshold == 10

\* the values cosine_similarity can give a document, in hundredths
Scores == {10, 11, 50}

\* cosine_similarity(query_vector, document_vectors).flatten(): one score per
\* document, decided by the vectorizer and the query
Similarities(prods) == [1..Len(prods) -> Scores]

\* np.argsort(similarities): a permutation of the indices that sorts the scores
\* ascending; the default kind is not stable, so equal scores come in any order
ArgSorts(sims) ==
    LET n == Cardinality(DOMAIN sims)
    IN  {o \in [1..n -> 1..n] :
            /\ \A i, j \in 1..n : i # j => o[i] # o[j]
            /\ \A i, j \in 1..n : i < j => sims[o[i]] <= sims[o[j]]}

\* a[-k:] for k >= 0 (and -0 is 0: the whole list)
LastK(a, k) ==
    IF k = 0 \/ k >= Len(a) THEN a ELSE SubSeq(a, Len(a) - k + 1, Len(a))

\* top_indices filtered by the relevance floor
semantic_hits(sims, order, top_k) ==
    LET top_indices == Reverse(LastK(order, top_k))
    IN  SelectSeq(top_indices, LAMBDA idx : sims[idx] > Threshold)

semantic_search(prods, sims, order, top_k) ==
    LET hits == semantic_hits(sims, order, top_k)
    IN  [i \in 1..Len(hits) |-> [product |-> prods[hits[i]], score |-> sims[hits[i]]]]

-----------------------------------------------------------------------------
(* The Entity Resolver *)

\* the first product whose name or brand contains the name, or 0
FirstMatch(prods, name) ==
    LET hit(i) == \/ IsSubstr(Lower(name), Lower(prods[i].name))
                  \/ IsSubstr(Lower(name), Lower(prods[i].brand))
        idx == {i \in 1..Len(prods) : hit(i)}
    IN  IF idx = {} THEN 0 ELSE CHOOSE i \in idx : \A j \in idx : i <= j

RECURSIVE find_phones_by_name(_, _)
find_phones_by_name(prods, phone_names) ==
    IF phone_names = <<>> THEN <<>>
    ELSE LET m == FirstMatch(prods, Head(phone_names))
             rest == find_phones_by_name(prods, Tail(phone_names))
         IN  IF m = 0 THEN rest ELSE <<prods[m]>> \o rest

-----------------------------------------------------------------------------
(* The Response Segmenter *)

\* str.split(". "): the pieces between the non-overlapping separators, left to right
RECURSIVE SplitFrom(_, _, _)
SplitFrom(s, cur, i) ==
    IF i > Len(s) THEN <<cur>>
    ELSE IF i < Len(s) /\ s[i] = "." /\ s[i + 1] = " "
         THEN <<cur>> \o SplitFrom(s, <<>>, i + 2)
         ELSE SplitFrom(s, Append(cur, s[i]), i + 1)

Split(s) == SplitFrom(s, <<>>, 1)

\* stream_response's loop: every chunk is yielded with ". " appended
stream_chunks(full_text) ==
    LET pieces == Split(full_text)
    IN  [i \in 1..Len(pieces) |-> pieces[i] \o <<".", " ">>]

RECURSIVE Concat(_)
Concat(ss) == IF ss = <<>> THEN <<>> ELSE Head(ss) \o Concat(Tail(ss))

TextChars == {"A", ".", " "}
ExampleText == <<"A", ".", " ", "B", ".", " ", "C", ".">>
Texts == SeqsUpTo(TextChars, MaxTextLen) \cup {ExampleText}

-----------------------------------------------------------------------------
(* The request in flight: values before anything has happened *)

NoData == [kind |-> "unset"]
NoCtx == [handler |-> "none", items |-> <<>>]
NoResponse ==
    [kind |-> "none", items |-> <<>>, text |-> <<>>,
     intent |-> [st |-> "absent", v |-> ""], confidence |-> AbsentN]

NoRequest ==
    /\ pc = "idle"
    /\ endpoint = "none"
    /\ query = <<>>
    /\ calls = <<>>
    /\ routeData = NoData
    /\ intentData = NoData
    /\ handler = <<>>
    /\ genCtx = NoCtx
    /\ outcome = "pending"
    /\ response = NoResponse
    /\ chunks = <<>>

reqVars == <<pc, endpoint, query, calls, routeData, intentData, handler,
             genCtx, outcome, response, chunks>>
sysVars == <<products, sysState, loadLog>>

\* a system constructed from the remote source with catalog c
Loaded(c) ==
    /\ products = c
    /\ sysState = "ready"
    /\ loadLog = <<[src |-> "remote", ok |-> TRUE, data |-> c]>>

-----------------------------------------------------------------------------
(* The safety gate: safety_system.py.  A query is a sequence of words and
   whitespace; a pattern is the words the regular expression needs, in
   order, with `.*` between them. *)

ADVERSARIAL_PATTERNS ==
    << <<{"reveal"}, {"prompt"}>>,
       <<{"show"}, {"apikey", "api key"}>>,
       <<{"ignore"}, {"rules"}>>,
       <<{"internal"}, {"logic"}>>,
       <<{"jailbreak"}>>,
       <<{"bypass", "disable"}, {"safety"}>>,
       <<{"trash", "insult", "hate", "defame", "attack", "bias"}>> >>

LowerWord(w) == IF w = "IGNORE" THEN "ignore" ELSE w

RECURSIVE LStrip(_)
LStrip(q) == IF q # <<>> /\ Head(q) = " " THEN LStrip(Tail(q)) ELSE q

\* str.strip()
Strip(q) == Reverse(LStrip(Reverse(LStrip(q))))

\* re.search(pattern, ws) from position i on
RECURSIVE Search(_, _, _)
Search(pat, ws, i) ==
    IF pat = <<>> THEN TRUE
    ELSE \E j \in i..Len(ws) : ws[j] \in Head(pat) /\ Search(Tail(pat), ws, j + 1)

is_unsafe_query(q) ==
    LET stripped == Strip(q)
        ws == [i \in 1..Len(stripped) |-> LowerWord(stripped[i])]
    IN  \E p \in 1..Len(ADVERSARIAL_PATTERNS) : Search(ADVERSARIAL_PATTERNS[p], ws, 1)

Queries ==
    { <<>>,
      <<" ">>,
      <<"ignore", " ", "all", " ", "rules">>,
      <<"IGNORE", " ", "rules">>,
      <<"best", " ", "phone">>,
      <<"rules", " ", "ignore">> }

\* check_gemini_safety: what the model answers to the safety prompt
SafetyReplies ==
    {[kind |-> "raise", label |-> ""],
     [kind |-> "text", label |-> "safe"],
     [kind |-> "text", label |-> "unsafe"]}

check_gemini_safety(reply) ==
    IF reply.kind = "raise" THEN FALSE ELSE reply.label = "unsafe"

-----------------------------------------------------------------------------
(* IntentResult: the dict detect_intent returns *)

\* a dict entry holding a word (intent, query_type, raw_text)
AbsentT == [st |-> "absent", v |-> ""]
NullT == [st |-> "null", v |-> ""]
Tok(w) == [st |-> "val", v |-> w]
\* a dict entry holding a list
AbsentL == [st |-> "absent", v |-> <<>>]
NullL == [st |-> "null", v |-> <<>>]
List(l) == [st |-> "val", v |-> l]

\* d.get(key, default)
GetOr(x, default) == IF x.st = "absent" THEN default ELSE x

\* the parameters dict: the FilterSet keys, phone_names and concept
ParamDict(F, names, concept) ==
    [filters |-> F, phone_names |-> names, concept |-> concept]
EmptyDict == ParamDict(NoFilters, AbsentL, AbsentS)
AbsentP == [st |-> "absent", v |-> EmptyDict]
NullP == [st |-> "null", v |-> EmptyDict]
Params(F, names, concept) == [st |-> "val", v |-> ParamDict(F, names, concept)]

\* bool(d) for the parameters dict or None
TruthyP(x) ==
    /\ x.st = "val"
    /\ \/ PresentKeys(x.v.filters) # {}
       \/ x.v.phone_names.st # "absent"
       \/ x.v.concept.st # "absent"

Dict(intent, confidence, parameters, query_type) ==
    [kind |-> "dict", intent |-> intent, confidence |-> confidence,
     parameters |-> parameters, query_type |-> query_type, raw_text |-> AbsentT]

\* `confidence: 0.7` of the fallback IntentResult, in tenths
DefaultConfidence == 7

\* line 146
DefaultIntent ==
    Dict(Tok("recommendation"), Num(DefaultConfidence), [st |-> "val", v |-> EmptyDict],
         AbsentT)

\* line 142
UnknownIntent(raw_text) ==
    [kind |-> "dict", intent |-> Tok("unknown"), confidence |-> Num(0),
     parameters |-> AbsentP, query_type |-> AbsentT, raw_text |-> Tok(raw_text)]

\* what the classifier may put in a JSON object
FlowFilters ==
    { NoFilters,
      [NoFilters EXCEPT !["max_price"] = Num(1)],
      [NoFilters EXCEPT !["max_price"] = NullN],
      [NoFilters EXCEPT !["brand"] = Str(<<"A">>)] }

NameLists ==
    { <<>>,
      << <<"x">> >>,
      << <<"x">>, <<"Y">> >>,
      << <<"x">>, <<"z">> >>,
      << <<"z">>, <<"z">> >>,
      << <<"x">>, <<"Y">>, <<"x">> >> }

RecommendParams ==
    {AbsentP, NullP} \cup {Params(F, AbsentL, AbsentS) : F \in FlowFilters}
NameParams ==
    {AbsentP, NullP, Params(NoFilters, AbsentL, AbsentS), Params(NoFilters, NullL, AbsentS)}
        \cup {Params(NoFilters, List(l), AbsentS) : l \in NameLists}
ConceptParams ==
    {AbsentP, NullP}
        \cup {Params(NoFilters, AbsentL, c) : c \in {AbsentS, NullS, Str(<<>>), Str(<<"c">>)}}

IntentDicts ==
    {Dict(i, Num(9), P, t) :
        i \in {Tok("recommendation"), Tok("unknown"), Tok("purchase")},
        P \in RecommendParams,
        t \in {AbsentT, Tok("structured"), Tok("semantic")}}
    \cup {Dict(i, Num(9), P, Tok("semantic")) :
        i \in {Tok("comparison"), Tok("details")}, P \in NameParams}
    \cup {Dict(Tok("explanation"), Num(9), P, Tok("semantic")) : P \in ConceptParams}
    \cup {Dict(i, c, [st |-> "val", v |-> EmptyDict], AbsentT) :
        i \in {AbsentT, NullT, Tok("comparison"), Tok("explanation"), Tok("details")},
        c \in {AbsentN, NullN}}

\* the response of model.generate_content(prompt) to the intent prompt: the
\* call raises, or the response has text, or only candidates, or neither; the
\* text may be wrapped in a ```json fence; it is a JSON object, another JSON
\* value, or no JSON at all
Bodies ==
    {[json |-> "invalid", raw |-> "not json"], [json |-> "other", raw |-> "[]"]}
        \cup {[json |-> "object", value |-> d] : d \in IntentDicts}

ClassifierReplies ==
    {[kind |-> "raise"], [kind |-> "empty"]}
        \cup {[kind |-> k, fenced |-> f, body |-> b] :
                k \in {"text", "candidates"}, f \in BOOLEAN, b \in Bodies}

\* what the call log keeps of a reply
ReplyKind(reply) ==
    IF reply.kind \in {"raise", "empty"} THEN reply.kind ELSE reply.body.json

\* detect_intent, from the try of line 119 on
detect_intent(reply) ==
    IF reply.kind = "raise" THEN DefaultIntent
    ELSE IF reply.kind = "empty" THEN [kind |-> "none"]
    ELSE LET raw_text == reply.body    \* the fence, if any, is cut off
         IN  IF raw_text.json = "invalid" THEN UnknownIntent(raw_text.raw)
             ELSE IF raw_text.json = "other" THEN [kind |-> "nondict"]
             ELSE raw_text.value

-----------------------------------------------------------------------------
(* Answers.  A text is kept by its shape: "A" stands for a run of characters
   that holds no ". " *)

\* the texts of the model's answer to a handler's prompt
GenTexts == { <<"A">>, <<"A", ".", " ", "A", ".">> }

GenReplies ==
    {[ok |-> FALSE, text |-> <<>>]} \cup {[ok |-> TRUE, text |-> t] : t \in GenTexts}

RECURSIVE Numbered(_)
\* "1. <name> ...\n 2. <name> ..." of the recommendation context
Numbered(n) == IF n = 0 THEN <<>> ELSE Numbered(n - 1) \o <<"A", ".", " ", "A">>

TextOf(kind, items) ==
    CASE kind = "refusal" -> <<"A", ".", " ", "A", ".">>
      [] kind = "no_results" -> <<"A", ".", " ", "A", ".">>
      [] kind = "need_two" -> <<"A", ".">>
      [] kind = "not_found_both" -> <<"A", ".", " ", "A">>
      [] kind = "need_name" -> <<"A", ".">>
      [] kind = "not_found" -> <<"A", ".", " ", "A", ".">>
      [] kind = "fallback_recommend" -> Numbered(Len(items))
      [] kind = "fallback_compare" -> <<"A">>
      [] kind = "fallback_explain" -> <<"A", ".", " ", "A", ".", " ", "A", ".">>
      [] kind = "fallback_details" -> <<"A">>
      [] OTHER -> <<>>

Resp(kind, items) ==
    [kind |-> kind, items |-> items, text |-> TextOf(kind, items),
     intent |-> AbsentT, confidence |-> AbsentN]

\* an exception, and whether process_query or the route raised it
Exc(error, at) ==
    [kind |-> "exception", items |-> <<error, at>>, text |-> <<>>,
     intent |-> AbsentT, confidence |-> AbsentN]

\* how a handler leaves: it returns a message, it raises, or it reaches
\* its generate_content call with a context
Return(kind, items) == [status |-> "return", response |-> Resp(kind, items)]
Raise(error) == [status |-> "raise", response |-> Exc(error, "process_query")]
Generate(h, items) == [status |-> "generate", ctx |-> [handler |-> h, items |-> items]]

-----------------------------------------------------------------------------
(* The handlers, up to their call of the generator *)

\* semantic_search(query, top_k=8)
TopK == 8
\* results[:6]
ContextLimit == 6
\* 'score': 1.0, in hundredths
ExactScore == 100

Take(s, n) == IF Len(s) <= n THEN s ELSE SubSeq(s, 1, n)

Names(ps) == [i \in 1..Len(ps) |-> ps[i].name]

handle_recommendation(prods, d, sims, order) ==
    IF d.parameters.st = "absent" THEN Raise("KeyError")
    ELSE
    LET filters == d.parameters
        query_type == GetOr(d.query_type, Tok("semantic"))
    IN  IF query_type = Tok("structured") /\ filters.st = "null"
        THEN Raise("AttributeError")
        ELSE
        LET found == structured_search(prods, filters.v.filters)
            semantic == semantic_search(prods, sims, order, TopK)
            results ==
                IF query_type = Tok("structured")
                THEN [i \in 1..Len(found) |-> [product |-> found[i], score |-> ExactScore]]
                ELSE IF TruthyP(filters)
                     THEN SelectSeq(semantic,
                                    LAMBDA r : apply_filters(r.product, filters.v.filters))
                     ELSE semantic
        IN  IF results = <<>> THEN Return("no_results", <<>>)
            ELSE Generate("recommend", Take(results, ContextLimit))

\* handle_comparison with the second length check off by one
handle_comparison_one_found(prods, d) ==
    IF d.parameters.st = "absent" THEN Raise("KeyError")
    ELSE IF d.parameters.st = "null" THEN Raise("AttributeError")
    ELSE
    LET phone_names == GetOr(d.parameters.v.phone_names, List(<<>>))
    IN  IF phone_names.st = "null" THEN Raise("TypeError")
        ELSE IF Len(phone_names.v) < 2 THEN Return("need_two", <<>>)
        ELSE
        LET phones_to_compare == find_phones_by_name(prods, phone_names.v)
        IN  IF Len(phones_to_compare) < 1
            THEN Return("not_found_both", Names(phones_to_compare))
            ELSE Generate("compare", phones_to_compare)

handle_comparison(prods, d) ==
    IF d.parameters.st = "absent" THEN Raise("KeyError")
    ELSE IF d.parameters.st = "null" THEN Raise("AttributeError")
    ELSE
    LET phone_names == GetOr(d.parameters.v.phone_names, List(<<>>))
    IN  IF phone_names.st = "null" THEN Raise("TypeError")
        ELSE IF Len(phone_names.v) < 2 THEN Return("need_two", <<>>)
        ELSE
        LET phones_to_compare == find_phones_by_name(prods, phone_names.v)
        IN  IF Len(phones_to_compare) < 2
            THEN Return("not_found_both", Names(phones_to_compare))
            ELSE Generate("compare", phones_to_compare)

handle_explanation(d) ==
    IF d.parameters.st = "absent" THEN Raise("KeyError")
    ELSE IF d.parameters.st = "null" THEN Raise("AttributeError")
    ELSE
    LET concept == GetOr(d.parameters.v.concept, Str(<<>>))
    IN  Generate("explain", IF TruthyS(concept) THEN <<"concept">> ELSE <<"query">>)

handle_details(prods, d) ==
    IF d.parameters.st = "absent" THEN Raise("KeyError")
    ELSE IF d.parameters.st = "null" THEN Raise("AttributeError")
    ELSE
    LET phone_names == GetOr(d.parameters.v.phone_names, List(<<>>))
    IN  IF ~TruthyS(phone_names) THEN Return("need_name", <<>>)
        ELSE
        LET phones == find_phones_by_name(prods, phone_names.v)
        IN  IF phones = <<>> THEN Return("not_found", <<Head(phone_names.v)>>)
            ELSE Generate("details", <<Head(phones)>>)

\* the except branch of each handler's generate_content call
Fallback(ctx) ==
    CASE ctx.handler = "recommend" -> Resp("fallback_recommend", ctx.items)
      [] ctx.handler = "compare" -> Resp("fallback_compare", ctx.items)
      [] ctx.handler = "explain" -> Resp("fallback_explain", ctx.items)
      [] ctx.handler = "details" -> Resp("fallback_details", ctx.items)

\* the if/elif chain with the details branch missing
Route_without_details(d) ==
    LET intent == GetOr(d.intent, Tok("recommendation"))
    IN  IF intent = Tok("comparison") THEN "compare"
        ELSE IF intent = Tok("explanation") THEN "explain"
        ELSE "recommend"

\* process_query's if/elif chain over intent_data.get('intent', 'recommendation')
Route(d) ==
    LET intent == GetOr(d.intent, Tok("recommendation"))
    IN  IF intent = Tok("comparison") THEN "compare"
        ELSE IF intent = Tok("explanation") THEN "explain"
        ELSE IF intent = Tok("details") THEN "details"
        ELSE "recommend"

-----------------------------------------------------------------------------
(* Construction of SYSTEM (routes.py line 10) *)

\* what requests.get(...).json() and json.load(f) may give
RemoteOutcomes ==
    {[ok |-> FALSE, data |-> <<>>], [ok |-> TRUE, data |-> <<PhoneA, PhoneB>>]}
LocalOutcomes ==
    {[ok |-> FALSE, data |-> <<>>], [ok |-> TRUE, data |-> <<PhoneB, PhoneC>>],
     [ok |-> TRUE, data |-> <<>>]}

\* load_products: the sources read, in order, and the catalog returned
load_products(remote, local) ==
    IF remote.ok
    THEN [data |-> remote.data,
          log |-> <<[src |-> "remote", ok |-> TRUE, data |-> remote.data]>>]
    ELSE [data |-> IF local.ok THEN local.data ELSE <<>>,
          log |-> <<[src |-> "remote", ok |-> FALSE, data |-> <<>>],
                    [src |-> "local", ok |-> local.ok, data |-> local.data]>>]

\* create_vector_store: TfidfVectorizer.fit_transform raises ValueError
\* ("empty vocabulary") on an empty list of documents
create_vector_store(prods) == IF prods = <<>> THEN "crashed" ELSE "ready"

Construct ==
    /\ sysState = "unbuilt"
    /\ \E remote \in RemoteOutcomes, local \in LocalOutcomes :
         LET loaded == load_products(remote, local)
         IN  /\ products' = loaded.data
             /\ loadLog' = loaded.log
             /\ sysState' = create_vector_store(loaded.data)
    /\ UNCHANGED <<reqVars, fn>>

-----------------------------------------------------------------------------
(* A request, step by step: one step per blocking call *)

Call(to, reply) == [to |-> to, reply |-> reply]

\* what the route reads of its own detect_intent result (lines 28-29)
RouteView(d) ==
    IF d.kind = "dict"
    THEN [kind |-> "dict", intent |-> d.intent, confidence |-> d.confidence]
    ELSE [kind |-> d.kind, intent |-> AbsentT, confidence |-> AbsentN]

\* the request arrives; /chat alone checks for an empty query
Receive ==
    /\ pc = "idle"
    /\ sysState = "ready"
    /\ \E ep \in {"chat", "chat_stream", "direct"}, q \in Queries :
         /\ endpoint' = ep
         /\ query' = q
         /\ IF ep = "chat" /\ Strip(q) = <<>>
            THEN /\ pc' = "done"
                 /\ outcome' = "http400"
                 /\ response' = Exc("HTTPException", "route")
            ELSE /\ pc' = IF ep = "chat" THEN "route_detect" ELSE "safety"
                 /\ UNCHANGED <<outcome, response>>
    /\ UNCHANGED <<sysVars, calls, routeData, intentData, handler, genCtx, chunks, fn>>

\* routes.py line 24
RouteDetect ==
    /\ pc = "route_detect"
    /\ \E reply \in ClassifierReplies :
         /\ routeData' = RouteView(detect_intent(reply))
         /\ calls' = Append(calls, Call("intent_classifier", ReplyKind(reply)))
    /\ pc' = "safety"
    /\ UNCHANGED <<sysVars, endpoint, query, intentData, handler, genCtx, outcome,
                   response, chunks, fn>>

\* process_query lines 475-480
SafetyGate ==
    /\ pc = "safety"
    /\ IF is_unsafe_query(query)
       THEN /\ response' = Resp("refusal", <<>>)
            /\ pc' = "deliver"
            /\ UNCHANGED calls
       ELSE \E reply \in SafetyReplies :
              /\ calls' = Append(calls, Call("safety_classifier", reply.kind))
              /\ IF check_gemini_safety(reply)
                 THEN /\ response' = Resp("refusal", <<>>)
                      /\ pc' = "deliver"
                 ELSE /\ pc' = "detect"
                      /\ UNCHANGED response
    /\ UNCHANGED <<sysVars, endpoint, query, routeData, intentData, handler, genCtx,
                   outcome, chunks, fn>>

\* process_query lines 482-496: classify, then pick the handler
Dispatch ==
    /\ pc = "detect"
    /\ \E reply \in ClassifierReplies :
         LET intent_data == detect_intent(reply)
         IN  /\ calls' = Append(calls, Call("intent_classifier", ReplyKind(reply)))
             /\ intentData' = intent_data
             /\ IF intent_data.kind # "dict"
                THEN /\ outcome' = "raised"
                     /\ response' = Exc("AttributeError", "process_query")
                     /\ pc' = "done"
                     /\ UNCHANGED handler
                ELSE /\ handler' = Append(handler, Route(intent_data))
                     /\ pc' = "handle"
                     /\ UNCHANGED <<outcome, response>>
    /\ UNCHANGED <<sysVars, endpoint, query, routeData, genCtx, chunks, fn>>

\* the handler runs until it returns, raises or calls the generator
Leave(result) ==
    CASE result.status = "return" ->
            /\ response' = result.response
            /\ pc' = "deliver"
            /\ UNCHANGED <<outcome, genCtx>>
      [] result.status = "raise" ->
            /\ response' = result.response
            /\ outcome' = "raised"
            /\ pc' = "done"
            /\ UNCHANGED genCtx
      [] result.status = "generate" ->
            /\ genCtx' = result.ctx
            /\ pc' = "generate"
            /\ UNCHANGED <<outcome, response>>

Handle ==
    /\ pc = "handle"
    /\ LET h == handler[Len(handler)]
       IN  CASE h = "recommend" ->
                  \E sims \in Similarities(products) :
                     \E order \in ArgSorts(sims) :
                        Leave(handle_recommendation(products, intentData, sims, order))
             [] h = "compare" -> Leave(handle_comparison(products, intentData))
             [] h = "explain" -> Leave(handle_explanation(intentData))
             [] h = "details" -> Leave(handle_details(products, intentData))
    /\ UNCHANGED <<sysVars, endpoint, query, calls, routeData, intentData, handler,
                   chunks, fn>>

\* the handler's generate_content call, and its except branch
GenerateAnswer ==
    /\ pc = "generate"
    /\ \E reply \in GenReplies :
         /\ calls' = Append(calls, Call("generator", IF reply.ok THEN "text" ELSE "raise"))
         /\ response' = IF reply.ok
                        THEN [Resp("generated", genCtx.items) EXCEPT !.text = reply.text]
                        ELSE Fallback(genCtx)
    /\ pc' = "deliver"
    /\ UNCHANGED <<sysVars, endpoint, query, routeData, intentData, handler, genCtx,
                   outcome, chunks, fn>>

\* process_query has returned: routes.py lines 27-31, stream_response's loop,
\* or the return to a direct caller
Deliver ==
    /\ pc = "deliver"
    /\ CASE endpoint = "chat" ->
              IF routeData.kind # "dict"
              THEN /\ outcome' = "raised"
                   /\ response' = Exc("AttributeError", "route")
                   /\ UNCHANGED chunks
              ELSE LET intent == GetOr(routeData.intent, Tok("recommendation"))
                       confidence == GetOr(routeData.confidence, Num(DefaultConfidence))
                   IN  IF intent.st = "null" \/ confidence.st = "null"
                       THEN /\ outcome' = "raised"
                            /\ response' = Exc("ValidationError", "route")
                            /\ UNCHANGED chunks
                       ELSE /\ outcome' = "ok"
                            /\ response' = [response EXCEPT !.intent = intent,
                                                            !.confidence = confidence]
                            /\ UNCHANGED chunks
         [] endpoint = "chat_stream" ->
              /\ chunks' = stream_chunks(response.text)
              /\ outcome' = "ok"
              /\ UNCHANGED response
         [] endpoint = "direct" ->
              /\ outcome' = "ok"
              /\ UNCHANGED <<response, chunks>>
    /\ pc' = "done"
    /\ UNCHANGED <<sysVars, endpoint, query, calls, routeData, intentData, handler,
                   genCtx, fn>>

\* the request is over; nothing of it is kept
Finish ==
    /\ pc = "done"
    /\ pc' = "idle"
    /\ endpoint' = "none"
    /\ query' = <<>>
    /\ calls' = <<>>
    /\ routeData' = NoData
    /\ intentData' = NoData
    /\ handler' = <<>>
    /\ genCtx' = NoCtx
    /\ outcome' = "pending"
    /\ response' = NoResponse
    /\ chunks' = <<>>
    /\ UNCHANGED <<sysVars, fn>>

Init ==
    /\ products = <<>>
    /\ sysState = "unbuilt"
    /\ loadLog = <<>>
    /\ NoRequest
    /\ fn = [op |-> "none"]

Next ==
    \/ Construct
    \/ Receive
    \/ RouteDetect
    \/ SafetyGate
    \/ Dispatch
    \/ Handle
    \/ GenerateAnswer
    \/ Deliver
    \/ Finish

Spec == Init /\ [][Next]_vars

-----------------------------------------------------------------------------
(* structured_search called on a constructed system *)

CallStructuredSearch ==
    /\ fn.op = "none"
    /\ \E F \in FilterSets :
        /\ fn' = [op |-> "structured_search", filters |-> F,
                  out |-> structured_search(products, F)]
        /\ UNCHANGED <<sysVars, reqVars>>

InitFilter ==
    /\ \E c \in NonEmptyCatalogs : Loaded(c)
    /\ NoRequest
    /\ fn = [op |-> "none"]

NextFilter == CallStructuredSearch

SpecFilter == InitFilter /\ [][NextFilter]_vars

-----------------------------------------------------------------------------
(* semantic_search called on a constructed system *)

CallSemanticSearch ==
    \E sims \in Similarities(products), top_k \in 0..MaxTopK :
        \E order \in ArgSorts(sims) :
            /\ fn' = [op |-> "semantic_search", sims |-> sims, top_k |-> top_k,
                      hits |-> semantic_hits(sims, order, top_k),
                      out |-> semantic_search(products, sims, order, top_k)]
            /\ UNCHANGED <<sysVars, reqVars>>

InitSemantic ==
    /\ \E c \in NonEmptyCatalogs : Loaded(c)
    /\ NoRequest
    /\ fn = [op |-> "none"]

NextSemantic == CallSemanticSearch

SpecSemantic == InitSemantic /\ [][NextSemantic]_vars

-----------------------------------------------------------------------------
(* stream_response's loop run on a completed answer text *)

CallSegment ==
    \E t \in Texts :
        /\ fn' = [op |-> "stream_response", text |-> t, out |-> stream_chunks(t)]
        /\ UNCHANGED <<sysVars, reqVars>>

InitSegment ==
    /\ Loaded(<<PhoneA, PhoneB>>)
    /\ NoRequest
    /\ fn = [op |-> "none"]

NextSegment == CallSegment

SpecSegment == InitSegment /\ [][NextSegment]_vars

-----------------------------------------------------------------------------
(* handle_recommendation called on a constructed system *)

\* the values of intent_data.get('query_type', 'semantic')
QueryTypes == {AbsentT, Tok("semantic"), Tok("structured")}

CallRecommendation ==
    /\ fn.op = "none"
    /\ \E F \in FilterSets, query_type \in QueryTypes, sims \in Similarities(products) :
        \E order \in ArgSorts(sims) :
            /\ fn' = [op |-> "handle_recommendation", filters |-> F,
                      query_type |-> query_type, sims |-> sims, order |-> order,
                      out |-> handle_recommendation(
                                  products,
                                  Dict(Tok("recommendation"), Num(9),
                                       Params(F, AbsentL, AbsentS), query_type),
                                  sims, order)]
            /\ UNCHANGED <<sysVars, reqVars>>

InitRecommend ==
    /\ \E c \in NonEmptyCatalogs : Loaded(c)
    /\ NoRequest
    /\ fn = [op |-> "none"]

NextRecommend == CallRecommendation

SpecRecommend == InitRecommend /\ [][NextRecommend]_vars

-----------------------------------------------------------------------------
(* What the claims read of a request *)

Called(to) == \E i \in 1..Len(calls) : calls[i].to = to

\* the classifier's reply to process_query's own detect_intent call (the last
\* one of the request: the route's call, if any, comes first)
ClassifiedAs(kinds) ==
    /\ intentData.kind # "unset"
    /\ LET idx == {i \in 1..Len(calls) : calls[i].to = "intent_classifier"}
           last == CHOOSE i \in idx : \A j \in idx : j <= i
       IN  calls[last].reply \in kinds

\* process_query raised instead of returning a text
ProcessQueryRaised ==
    /\ response.kind = "exception"
    /\ response.items[2] = "process_query"

-----------------------------------------------------------------------------
(* C1: when the classifier's text is not valid JSON, detect_intent gives
   the default IntentResult (intent unknown, confidence 0.0, raw text kept),
   process_query routes it to the recommend handler and returns a text
   without raising. *)

C1_MalformedOutputRecovered ==
    ClassifiedAs({"invalid"}) =>
        /\ intentData = UnknownIntent("not json")
        /\ handler = <<"recommend">>
        /\ ~ProcessQueryRaised

-----------------------------------------------------------------------------
(* C2: when the classifier fails entirely (the call raises, or the response
   has neither text nor candidates), detect_intent gives the default
   IntentResult (recommendation, 0.7, empty parameters), process_query
   dispatches it to the recommend handler and nothing is raised. *)

C2_ClassifierFailureRecovered ==
    ClassifiedAs({"raise", "empty"}) =>
        /\ intentData = DefaultIntent
        /\ handler = <<"recommend">>
        /\ ~ProcessQueryRaised

-----------------------------------------------------------------------------
(* C3: on every inbound path a query the pattern gate flags is answered
   with the canned refusal, and the intent classifier is never called for
   that request. *)

C3_UnsafeNeverClassified ==
    (endpoint # "none" /\ is_unsafe_query(query)) =>
        /\ ~Called("intent_classifier")
        /\ pc = "done" => (outcome = "ok" /\ response.kind = "refusal")

-----------------------------------------------------------------------------
(* C4: for every FilterSet and catalog, structured_search returns a
   subsequence of the catalog, in catalog order, of products that satisfy
   every constraint present in the FilterSet, a value of 0 or "" included. *)

Satisfies(p, k, v) ==
    CASE k = "max_price" -> p.price <= v
      [] k = "min_price" -> p.price >= v
      [] k = "min_camera" -> p.camera >= v
      [] k = "min_battery" -> p.battery >= v
      [] k = "min_charging" -> p.charging >= v
      [] k = "max_screen_size" -> p.screen_size <= v
      [] k = "brand" -> IsSubstr(Lower(v), Lower(p.brand))
      [] k = "os" -> IsSubstr(Lower(v), Lower(p.os))

\* s is t with some elements dropped
IsSubsequence(s, t) ==
    \E keep \in SUBSET (1..Len(t)) :
        LET kept == SelectSeq([i \in 1..Len(t) |-> i], LAMBDA i : i \in keep)
        IN  s = [j \in 1..Len(kept) |-> t[kept[j]]]

\* C4: structured_search returns a subsequence of the catalog whose products
\* satisfy every constraint present in the FilterSet (0 and "" included)
C4_StructuredSearchSound ==
    fn.op = "structured_search" =>
        /\ IsSubsequence(fn.out, products)
        /\ \A i \in 1..Len(fn.out) :
             \A k \in FilterKeys :
                fn.filters[k].st = "val" => Satisfies(fn.out[i], k, fn.filters[k].v)

-----------------------------------------------------------------------------
(* C5: semantic_search returns at most top_k results, each with a score
   above 0.1, strictly descending by score, equal scores in catalog order. *)

C5_SemanticSearchRanked ==
    fn.op = "semantic_search" =>
        /\ Len(fn.out) <= fn.top_k
        /\ \A i \in 1..Len(fn.out) : fn.out[i].score > Threshold
        /\ \A i, j \in 1..Len(fn.out) :
             i < j => \/ fn.out[i].score > fn.out[j].score
                      \/ /\ fn.out[i].score = fn.out[j].score
                         /\ fn.hits[i] < fn.hits[j]
        /\ \A i, j \in 1..Len(fn.out) : i < j => fn.out[i].score > fn.out[j].score

-----------------------------------------------------------------------------
(* C6: the chunks stream_response yields are the pieces of the text in
   order, ". " re-appended to every piece but the last, so that their
   concatenation is the text. *)

C6_SegmentsReassemble ==
    fn.op = "stream_response" =>
        /\ Concat(fn.out) = fn.text
        /\ fn.text = ExampleText =>
             fn.out = << <<"A", ".", " ">>, <<"B", ".", " ">>, <<"C", ".">> >>

-----------------------------------------------------------------------------
(* C7: if the remote source fails the local source is read exactly once and
   its result becomes the catalog; if both fail the catalog is empty,
   construction still completes and later queries are answered, not raised. *)

C7_LoadFallbackChain ==
    sysState # "unbuilt" =>
        /\ ~loadLog[1].ok =>
              /\ Len(loadLog) = 2
              /\ loadLog[2].src = "local"
              /\ loadLog[2].ok => products = loadLog[2].data
        /\ (\A i \in 1..Len(loadLog) : ~loadLog[i].ok) =>
              /\ products = <<>>
              /\ sysState = "ready"
              /\ ~ProcessQueryRaised

-----------------------------------------------------------------------------
(* C8: /chat and /chat_stream both reject an empty or whitespace-only query
   as a client error before any processing: no safety check, no
   classification, no retrieval, no generation. *)

C8_BlankQueryRejected ==
    (endpoint \in {"chat", "chat_stream"} /\ Strip(query) = <<>>) =>
        /\ calls = <<>>
        /\ handler = <<>>
        /\ pc = "done" => outcome = "http400"

-----------------------------------------------------------------------------
(* C9: for every IntentResult that passes the safety gate process_query
   invokes exactly one handler, chosen by the category alone: comparison ->
   compare, explanation -> explain, details -> details, anything else
   (recommendation, unknown, an unrecognised word, null, a missing
   category) -> recommend. *)

HandlerOf(category) ==
    CASE category = Tok("comparison") -> "compare"
      [] category = Tok("explanation") -> "explain"
      [] category = Tok("details") -> "details"
      [] OTHER -> "recommend"

\* C9: exactly one handler is invoked for an IntentResult, the one its
\* category names, and none without an IntentResult
C9_DispatchByCategory ==
    /\ intentData.kind = "dict" => handler = <<HandlerOf(intentData.intent)>>
    /\ handler # <<>> => intentData.kind = "dict"

\* a missing category has been routed to the recommend handler, which ran
C9_Witness ==
    /\ pc = "done"
    /\ intentData.kind = "dict"
    /\ intentData.intent = AbsentT
    /\ handler = <<"recommend">>

-----------------------------------------------------------------------------
(* C10: whenever the compare handler is given phone_names of which fewer
   than two resolve, it returns a failure message and never calls the
   generator.  As claimed, the message always names the entries found; as
   amended, it names them when at least two names were given, and is the
   fixed request for two phones when fewer than two names were given. *)

\* the compare handler has run on a list of names of which fewer than two resolve
CompareUnresolved ==
    /\ handler = <<"compare">>
    /\ pc # "handle"
    /\ intentData.parameters.st = "val"
    /\ intentData.parameters.v.phone_names.st = "val"
    /\ Len(find_phones_by_name(products, intentData.parameters.v.phone_names.v)) < 2

HandlerAnswer(kind, items) ==
    /\ pc \in {"deliver", "done"}
    /\ ~Called("generator")
    /\ genCtx = NoCtx
    /\ pc = "deliver" => response = Resp(kind, items)

\* C10 as claimed: the failure message always names the entries found
C10_Original ==
    CompareUnresolved =>
        LET names == intentData.parameters.v.phone_names.v
        IN  HandlerAnswer("not_found_both", Names(find_phones_by_name(products, names)))

\* C10 as amended: a failure message and no generator call; the entries found
\* are named when two or more names were given
C10_FailureWithoutGeneration ==
    CompareUnresolved =>
        LET names == intentData.parameters.v.phone_names.v
        IN  IF Len(names) < 2
            THEN HandlerAnswer("need_two", <<>>)
            ELSE HandlerAnswer("not_found_both",
                               Names(find_phones_by_name(products, names)))

\* two names given, one resolved: the message names the one found
C10_Witness ==
    /\ CompareUnresolved
    /\ pc = "deliver"
    /\ Len(intentData.parameters.v.phone_names.v) = 2
    /\ response.kind = "not_found_both"
    /\ Len(response.items) = 1

-----------------------------------------------------------------------------
(* C11: when the compare handler resolves two or more entries, the payload
   sent to the generator, and the fallback block built when generation
   fails, hold exactly the first two resolved entries and no later one. *)

\* the compare handler has reached its generate_content call
CompareResolved ==
    /\ handler = <<"compare">>
    /\ genCtx.handler = "compare"

\* C11: the comparison payload and the fallback block are the first two
\* resolved entries
C11_FirstTwoOnly ==
    CompareResolved =>
        LET resolved == find_phones_by_name(products,
                                            intentData.parameters.v.phone_names.v)
        IN  /\ Len(resolved) >= 2
            /\ genCtx.items = Take(resolved, 2)
            /\ response.kind = "fallback_compare" => response.items = Take(resolved, 2)

-----------------------------------------------------------------------------
(* C13: the bulk filter and the per-item predicate are the same filter: for
   every catalog, every product p of it and every FilterSet F (zero,
   empty-string, null and absent values included), p is in
   structured_search(F) exactly when apply_filters(p, F) is true. *)

\* the positions of the catalog that the bulk filter kept: the result is the
\* catalog restricted to them, in catalog order
KeptByPredicate(prods, F) == SelectSeq(prods, LAMBDA p : apply_filters(p, F))

\* C13: membership in structured_search(F) is apply_filters(p, F), for every
\* product of the catalog, and the bulk result is the catalog filtered by the
\* predicate
C13_BulkIsPredicate ==
    fn.op = "structured_search" =>
        /\ \A i \in 1..Len(products) :
               (\E j \in 1..Len(fn.out) : fn.out[j] = products[i])
                   <=> apply_filters(products[i], fn.filters)
        /\ fn.out = KeptByPredicate(products, fn.filters)

\* a call with a zero, an empty-string or a null constraint beside one that
\* rejects one product of two
C13_Witness ==
    /\ fn.op = "structured_search"
    /\ Len(products) = 2
    /\ Len(fn.out) = 1
    /\ \/ fn.filters["max_price"] = Num(0)
       \/ fn.filters["brand"] = Str(<<>>)
       \/ fn.filters["min_price"] = NullN
    /\ fn.filters["min_camera"] = Num(2)

-----------------------------------------------------------------------------
(* C12: on the semantic path of the recommend handler the products of the
   generation context are at most 6, a prefix (in similarity order) of the
   top-8 similarity results that satisfy every present filter, each with a
   score above 0.1; with no such result the handler returns the "no results"
   message and does not reach the generator. *)

\* the top-8 similarity results whose product satisfies every present filter
TopMatching(prods, F, sims, order) ==
    SelectSeq(semantic_search(prods, sims, order, TopK),
              LAMBDA r : \A k \in FilterKeys :
                            F[k].st = "val" => Satisfies(r.product, k, F[k].v))

IsPrefix(s, t) == Len(s) <= Len(t) /\ s = SubSeq(t, 1, Len(s))

\* C12: the semantic path hands the generator a prefix of at most 6 of the
\* matching top-8 results, and answers "no results" when none matches
C12_SemanticContext ==
    (fn.op = "handle_recommendation" /\ fn.query_type # Tok("structured")) =>
        LET matching == TopMatching(products, fn.filters, fn.sims, fn.order)
        IN  IF matching = <<>>
            THEN fn.out = Return("no_results", <<>>)
            ELSE /\ fn.out.status = "generate"
                 /\ fn.out.ctx.items # <<>>
                 /\ Len(fn.out.ctx.items) <= ContextLimit
                 /\ IsPrefix(fn.out.ctx.items, matching)
                 /\ \A i \in 1..Len(fn.out.ctx.items) :
                        fn.out.ctx.items[i].score > Threshold

-----------------------------------------------------------------------------
(* C14: in /chat the intent and confidence returned to the caller are those
   of the classification that routed the request, whatever the classifier
   answers, and a query refused by the safety gate is not reported with a
   classified intent. *)

\* /chat has answered with a QueryResponse
ChatAnswered == endpoint = "chat" /\ pc = "done" /\ outcome = "ok"

\* the reported pair is the one process_query routed by
ReportsRoutingIntent ==
    (ChatAnswered /\ handler # <<>>) =>
        /\ response.intent = GetOr(intentData.intent, Tok("recommendation"))
        /\ response.confidence = GetOr(intentData.confidence, Num(DefaultConfidence))
        /\ HandlerOf(response.intent) = handler[Len(handler)]

\* a refusal carries no intent that a classifier call returned
RefusalUnclassified ==
    (ChatAnswered /\ response.kind = "refusal") =>
        ~(routeData.kind = "dict" /\ routeData.intent.st = "val"
            /\ response.intent = routeData.intent)

\* C14: /chat reports the intent and confidence that routed the request, and
\* reports no classified intent for a refused query
C14_ReportedIntentRouted == ReportsRoutingIntent /\ RefusalUnclassified

====
